---- MODULE Spec2Model ----
(***************************************************************************)
(* A model of u_monitor.py: the monitoring session of main(), its watch    *)
(* loop (watch_items), the reader thread (readline_and_queue), the         *)
(* threading.Timer threads started by reboot_callback and the dispatch of  *)
(* each dequeued line over the INTERESTING table.                          *)
(*                                                                         *)
(* Time is counted in ticks, TicksPerSecond of them in a second.  A line   *)
(* of text is a sequence of atoms: an atom is either one character or a    *)
(* word that the patterns only ever treat as a unit.                       *)
(***************************************************************************)
EXTENDS Integers, Sequences, FiniteSets, TLC

\* ------------------------------------------------------------------ bounds
\* The clock stops advancing here (in ticks).
MaxTime == 3
\* The transport returns at most this many non-empty lines in a session.
MaxLines == 2
\* The resolution of the clock: ticks in a second.
TicksPerSecond == 1
\* The lines the loop of watch_items is given when it is looked at alone.
MaxFeed == 3
\* The bytes the device sends when pwar_readline is looked at alone.
MaxStream == 4

\* ------------------------------------------------------- values and helpers
\* A value that may be None is None or Some(v).
None == << >>

Some(v) == << v >>

\* Truthy with 0 taken for a number like any other.
Truthy_ZeroCounts(x) == x # None

\* Python truthiness of an optional number: None and 0 are both false.
Truthy(x) == x # None /\ x # Some(0)

\* n seconds in ticks.
Seconds(n) == TicksPerSecond * n

\* The ticks in an optional number of seconds that is neither None nor 0.
Budget(x) == Seconds(x[1])

\* int(ceil(t)) of a time difference of d ticks, in seconds.
CeilSeconds(d) == (d + Seconds(1) - 1) \div Seconds(1)

\* Timer(2, ...) of reboot_callback, in seconds.
FinishDelay == 2

Digits == {"0", "1", "2", "3", "4", "5", "6", "7", "8", "9"}

\* The atoms that are one character long (what a regex "." consumes).
SingleChar == Digits \cup {" ", ".", ":", "(", ")", "c", "s", "a", "x"}

DigitVal(d) ==
    CASE d = "0" -> 0 [] d = "1" -> 1 [] d = "2" -> 2 [] d = "3" -> 3
      [] d = "4" -> 4 [] d = "5" -> 5 [] d = "6" -> 6 [] d = "7" -> 7
      [] d = "8" -> 8 [] d = "9" -> 9

\* int() of a string of decimal digits.
RECURSIVE ToInt(_)
ToInt(ds) ==
    IF ds = << >> THEN 0
    ELSE 10 * ToInt(SubSeq(ds, 1, Len(ds) - 1)) + DigitVal(ds[Len(ds)])

\* The atom at position i, or "" past either end.
At(s, i) == IF i \in 1..Len(s) THEN s[i] ELSE ""

\* Whether p occurs in s starting at position i.
MatchAt(s, i, p) ==
    /\ i >= 1
    /\ i + Len(p) - 1 <= Len(s)
    /\ SubSeq(s, i, i + Len(p) - 1) = p

\* The length of the longest run of atoms of S in s that starts at i.
RECURSIVE RunOf(_, _, _)
RunOf(s, i, S) ==
    IF i \in 1..Len(s) /\ s[i] \in S THEN 1 + RunOf(s, i + 1, S) ELSE 0

Min(S) == CHOOSE x \in S : \A y \in S : x <= y

\* ------------------------------------------------------------- the lines
\* The texts the transport can return, as atoms.  A line is identified in
\* the state by its index in this table.
LineText ==
    << << "abort", "(", ")" >>,
       << "Running", " ", "testFoo", ".", ".", "." >>,
       << "a", ".", "c", ":", "1", "0", ":", "testFoo", ":", "PASS" >>,
       << "a", ".", "c", ":", "1", "0", ":", "testFoo", ":", "FAIL", ":", "x" >>,
       << "1", " ", "Test", "s", " ", "0", " ", "Failure", "s", " ", "0", " ",
          "Ignored" >>,
       << "a", ".", "c", ":", "1", "0", ":", "testFoo", ":", "FAIL", ":", "x",
          ":", "PASS" >>,
       << "hello" >>,
       << >>,
       << "1", " ", "Test", "s", " ", "2", " ", "Failure", "s", " ", "0", " ",
          "Ignored" >>,
       << "Running", " ", "testBar", ".", ".", "." >> >>

LineIds == 1..Len(LineText)

\* What pwar_readline can hand back: None or a line (possibly the empty one).
ReadResults == {None} \cup {Some(l) : l \in LineIds}

\* "if line:" of readline_and_queue: None and "" are both false.
LineTruthy(r) == r # None /\ LineText[r[1]] # << >>

\* ------------------------------------------------- the INTERESTING patterns
\* re.match(pattern, line) for each entry of INTERESTING: whether it matched
\* and, if so, the captured groups.  A pattern without "$" may be followed
\* by anything.
NoMatch == [matched |-> FALSE, groups |-> << >>]

Match(gs) == [matched |-> TRUE, groups |-> gs]

\* r"abort()", r"Guru Meditation Error", r"<error> hardfault",
\* r">>> ZEPHYR FATAL ERROR": a literal at the start of the line.
MatchLiteral(lit, s) == IF MatchAt(s, 1, lit) THEN Match(<< >>) ELSE NoMatch

\* r"(?:^.*Running) +([^\.]+(?=\.))...$": "Running", at least one space, a
\* group of atoms other than ".", which a "." follows, then exactly three
\* characters (that "." among them) and the end of the line.
MatchRun(s) ==
    LET n == Len(s)
        starts == {r \in 1..n :
                      /\ s[r] = "Running"
                      /\ At(s, r + 1) = " "
                      /\ r + 2 <= n - 3
                      /\ \A p \in (r + 2)..(n - 3) : s[p] # "."
                      /\ s[n - 2] = "."
                      /\ s[n - 1] \in SingleChar
                      /\ s[n] \in SingleChar}
    IN  IF starts = {} THEN NoMatch
        ELSE LET r == CHOOSE x \in starts : \A y \in starts : y <= x
                 b == r + 1 + RunOf(s, r + 1, {" "})
             IN  Match(<< SubSeq(s, IF b <= n - 3 THEN b ELSE n - 3, n - 3) >>)

\* The position of the ":" that ends "(?:^.*?(?:\.c:))(?:[0-9]*:)" when the
\* ".c:" is taken at position i, or 0 when that prefix does not match there.
PrefixEnd(s, i) ==
    LET g == i + 3 + RunOf(s, i + 3, Digits)
    IN  IF MatchAt(s, i, << ".", "c", ":" >>) /\ At(s, g) = ":" THEN g ELSE 0

\* r"(?:^.*?(?:\.c:))(?:[0-9]*:)(.*?):PASS$"
MatchPass(s) ==
    LET n == Len(s)
        starts == {i \in 1..n :
                      /\ PrefixEnd(s, i) # 0
                      /\ PrefixEnd(s, i) + 1 <= n - 1
                      /\ s[n - 1] = ":"
                      /\ s[n] = "PASS"}
    IN  IF starts = {} THEN NoMatch
        ELSE Match(<< SubSeq(s, PrefixEnd(s, Min(starts)) + 1, n - 2) >>)

\* The positions at which ":FAIL:" can end the group that starts after g.
FailEnds(s, g) == {j \in (g + 1)..Len(s) : MatchAt(s, j, << ":", "FAIL", ":" >>)}

\* r"(?:^.*?(?:\.c:))(?:[0-9]*:)(.*?):FAIL:"
MatchFail(s) ==
    LET starts == {i \in 1..Len(s) :
                      /\ PrefixEnd(s, i) # 0
                      /\ FailEnds(s, PrefixEnd(s, i)) # {}}
    IN  IF starts = {} THEN NoMatch
        ELSE LET g == PrefixEnd(s, Min(starts))
             IN  Match(<< SubSeq(s, g + 1, Min(FailEnds(s, g)) - 1) >>)

\* r"(^[0-9]+) Test(?:s*) ([0-9]+) Failure(?:s*) ([0-9]+) Ignored"
MatchFinish(s) ==
    LET n1 == RunOf(s, 1, Digits)
        q1 == 1 + n1                            \* " " before Test
        q2 == q1 + 2 + RunOf(s, q1 + 2, {"s"})  \* " " after Test(s*)
        n2 == RunOf(s, q2 + 1, Digits)
        q3 == q2 + 1 + n2                       \* " " before Failure
        q4 == q3 + 2 + RunOf(s, q3 + 2, {"s"})  \* " " after Failure(s*)
        n3 == RunOf(s, q4 + 1, Digits)
        q5 == q4 + 1 + n3                       \* " " before Ignored
    IN  IF /\ n1 >= 1 /\ At(s, q1) = " " /\ At(s, q1 + 1) = "Test"
           /\ At(s, q2) = " " /\ n2 >= 1
           /\ At(s, q3) = " " /\ At(s, q3 + 1) = "Failure"
           /\ At(s, q4) = " " /\ n3 >= 1
           /\ At(s, q5) = " " /\ At(s, q5 + 1) = "Ignored"
        THEN Match(<< SubSeq(s, 1, n1), SubSeq(s, q2 + 1, q2 + n2),
                      SubSeq(s, q4 + 1, q4 + n3) >>)
        ELSE NoMatch

\* The entries of INTERESTING, in order: the callback of each.
INTERESTING ==
    << "reboot_callback", "reboot_callback", "reboot_callback",
       "reboot_callback", "run_callback", "pass_callback", "fail_callback",
       "finish_callback" >>

\* re.match(entry[0], line) for entry e of INTERESTING.
ReMatch(e, s) ==
    CASE e = 1 -> MatchLiteral(<< "abort" >>, s)
      [] e = 2 -> MatchLiteral(<< "Guru", " ", "Meditation", " ", "Error" >>, s)
      [] e = 3 -> MatchLiteral(<< "<error>", " ", "hardfault" >>, s)
      [] e = 4 -> MatchLiteral(<< ">>>", " ", "ZEPHYR", " ", "FATAL", " ", "ERROR" >>, s)
      [] e = 5 -> MatchRun(s)
      [] e = 6 -> MatchPass(s)
      [] e = 7 -> MatchFail(s)
      [] e = 8 -> MatchFinish(s)

\* The matches of every entry against every line of the table.
Matches == [l \in LineIds |-> [e \in 1..Len(INTERESTING) |-> ReMatch(e, LineText[l])]]

\* The entries of INTERESTING that match line l, in table order.
RECURSIVE MatchingFrom(_, _)
MatchingFrom(l, e) ==
    IF e > Len(INTERESTING) THEN << >>
    ELSE (IF Matches[l][e].matched THEN << e >> ELSE << >>)
         \o MatchingFrom(l, e + 1)

Matching(l) == MatchingFrom(l, 1)

\* The item names that run_callback can be given: match.group(1) of the
\* lines that the run pattern matches.
ItemNames ==
    {Matches[l][5].groups[1] : l \in {x \in LineIds : Matches[x][5].matched}}

\* ---------------------------------------------------------------- the state
VARIABLES
    guard_time_seconds,       \* main's parameter: None, 0 or a number of seconds
    inactivity_time_seconds,  \* main's parameter: None, 0 or a number of seconds
    keep_going_flag,          \* TRUE while the caller's flag asks to keep going
    now,                      \* time(), in ticks
    results,                  \* the results dictionary of main
    pc,                       \* where the thread that runs main is
    return_value,             \* return_value of main / watch_items
    start_time,               \* watch_items' start_time
    last_activity_time,       \* watch_items' last_activity_time
    exit_cause,               \* the conjunct that ended the while loop
    timer_msg,                \* which "timer expired" message watch_items printed
    readline_thread,          \* where the readline_and_queue thread is
    read_queue,               \* the queue.Queue between the two
    transport_out,            \* the non-empty lines pwar_readline has returned
    log,                      \* the lines written with file_only=True
    finish_timers,            \* the pending threading.Timer threads: when each is due
    send_first_failed,        \* esp32_send_first was called and returned False
    report,                   \* what was written to test_report_handle
    grace_lines,              \* the lines returned by the transport up to the
                              \* moment a Timer set "finished", None before
    item_start,               \* for each item name, when run_callback was last
                              \* called for it, None before
    report_args,              \* main's test_report_handle and instance as the
                              \* end of main found them, None before
    connection_type,          \* pwar_readline's connection_type
    in_handle,                \* the bytes the device sends, read or not
    handle_pos,               \* how many of them have been read from in_handle
    lines_returned,           \* the values pwar_readline has returned that
                              \* are neither None nor ""
    readline_raised,          \* a call of pwar_readline has raised
    handle_written,           \* what has been written to in_handle
    run_pc,                   \* where u_run_zephyr.run is
    build_dir,                \* run's build_dir: None or what build returned
    locked_connection,        \* None before run's "with u_connection.Lock",
                              \* then whether it gave a connection
    jlink_device_name,        \* what jlink_device(mcu) returns
    retries,                  \* run's retries
    downloaded,               \* run's downloaded
    run_return_value,         \* run's return_value
    download_calls,           \* how many times run has called download
    monitor_calls,            \* how many times run has called u_monitor.main
    cpunet_hex_exists,        \* os.path.exists(cpunet_hex_path)
    nrf_pc,                   \* where download_nrf53 is
    nrf_success,              \* download_nrf53's success
    exe_runs                  \* the nrfjprog calls download_nrf53 has made in
                              \* this call, each with what exe_run returned

\* What the calls of pwar_readline work on, looked at byte by byte.
reader_vars ==
    << connection_type, in_handle, handle_pos, lines_returned,
       readline_raised >>

\* What a session works on; to it a call of pwar_readline is one step.
session_vars ==
    << guard_time_seconds, inactivity_time_seconds, keep_going_flag, now,
       results, pc, return_value, start_time, last_activity_time, exit_cause,
       timer_msg, readline_thread, read_queue, transport_out, log,
       finish_timers, send_first_failed, report, grace_lines, item_start,
       report_args >>

\* What u_run_zephyr.run and download_nrf53 work on.
zephyr_vars ==
    << run_pc, build_dir, locked_connection, jlink_device_name, retries,
       downloaded, run_return_value, download_calls, monitor_calls,
       cpunet_hex_exists, nrf_pc, nrf_success, exe_runs >>

vars == << session_vars, reader_vars, handle_written, zephyr_vars >>

\* u_run_zephyr.run has not been called: a session started in another way.
NoRun ==
    /\ run_pc = "not_called"
    /\ build_dir = None
    /\ locked_connection = None
    /\ jlink_device_name = None
    /\ retries = 0
    /\ downloaded = FALSE
    /\ run_return_value = -1
    /\ download_calls = 0
    /\ monitor_calls = 0
    /\ cpunet_hex_exists = FALSE
    /\ nrf_pc = "idle"
    /\ nrf_success = TRUE
    /\ exe_runs = << >>

\* The timer settings a session is started with.
TimeSettings == {None, Some(0), Some(1)}

\* ------------------------------------------------------------ the callbacks
\* Each callback works on st = [results, timers, called]: the results
\* dictionary, the timers started so far and the callbacks called for the
\* line at hand; m is the match and t is time().

\* delayed_finish: what a Timer thread runs.
delayed_finish(res) == [res EXCEPT !.finished = TRUE]

\* reboot_callback setting "finished" itself instead of leaving it to the Timer.
reboot_callback_Finishing(m, st, t) ==
    [st EXCEPT !.results.reboots = @ + 1,
               !.results.finished = TRUE,
               !.timers = Append(@, t + Seconds(FinishDelay))]

\* reboot_callback cancelling the Timers that are pending and starting anew.
reboot_callback_Restarting(m, st, t) ==
    [st EXCEPT !.results.reboots = @ + 1,
               !.timers = << t + Seconds(FinishDelay) >>]

reboot_callback(m, st, t) ==
    [st EXCEPT !.results.reboots = @ + 1,
               !.timers = Append(@, t + Seconds(FinishDelay))]

\* run_callback without its count of the items started.
run_callback_StartOnly(m, st, t) ==
    [st EXCEPT !.results.last_start_time = t]

run_callback(m, st, t) ==
    [st EXCEPT !.results.last_start_time = t,
               !.results.items_run = @ + 1]

\* record_outcome keeping the new outcome only.
record_outcome_Replacing(res, name, duration, status) ==
    [res EXCEPT !.outcomes = << << name, duration, status >> >>]

\* record_outcome passing over an outcome that the item already has.
record_outcome_NoDuplicates(res, name, duration, status) ==
    IF \E i \in 1..Len(res.outcomes) :
           res.outcomes[i][1] = name /\ res.outcomes[i][3] = status
    THEN res
    ELSE [res EXCEPT !.outcomes = Append(@, << name, duration, status >>)]

record_outcome(res, name, duration, status) ==
    [res EXCEPT !.outcomes = Append(@, << name, duration, status >>)]

\* pass_callback timing the item from the start of the run.
pass_callback_FromOverallStart(m, st, t) ==
    [st EXCEPT !.results =
        record_outcome(@, m.groups[1],
                       CeilSeconds(t - st.results.overall_start_time), "PASS")]

pass_callback(m, st, t) ==
    [st EXCEPT !.results =
        record_outcome(@, m.groups[1],
                       CeilSeconds(t - st.results.last_start_time), "PASS")]

\* fail_callback recording the outcome without counting the failure.
fail_callback_NotCounting(m, st, t) ==
    [st EXCEPT !.results =
        record_outcome(@, m.groups[1],
                       CeilSeconds(t - st.results.last_start_time), "FAIL")]

fail_callback(m, st, t) ==
    [st EXCEPT !.results =
        record_outcome([@ EXCEPT !.items_failed = @ + 1], m.groups[1],
                       CeilSeconds(t - st.results.last_start_time), "FAIL")]

\* finish_callback taking the first two numbers the wrong way round.
finish_callback_GroupsSwapped(m, st, t) ==
    [st EXCEPT !.results.items_run = ToInt(m.groups[2]),
               !.results.items_failed = ToInt(m.groups[1]),
               !.results.items_ignored = ToInt(m.groups[3]),
               !.results.finished = TRUE]

finish_callback(m, st, t) ==
    [st EXCEPT !.results.items_run = ToInt(m.groups[1]),
               !.results.items_failed = ToInt(m.groups[2]),
               !.results.items_ignored = ToInt(m.groups[3]),
               !.results.finished = TRUE]

Callback(name, m, st, t) ==
    CASE name = "reboot_callback" -> reboot_callback(m, st, t)
      [] name = "run_callback" -> run_callback(m, st, t)
      [] name = "pass_callback" -> pass_callback(m, st, t)
      [] name = "fail_callback" -> fail_callback(m, st, t)
      [] name = "finish_callback" -> finish_callback(m, st, t)

\* item_start after line l was dispatched at time t: run_callback was called
\* for the item that the run pattern captured, if it matched.
Started(starts, l, t) ==
    IF Matches[l][5].matched
    THEN [starts EXCEPT ![Matches[l][5].groups[1]] = Some(t)]
    ELSE starts

\* Whether the for loop over INTERESTING goes on to entry e + 1 after entry
\* e was tried (matched tells whether e matched): the loop has no break.
NextEntry(e, matched) == TRUE

\* "for entry in INTERESTING: match = re.match(...); if match: entry[1](...)"
\* from entry e on.
RECURSIVE Dispatch(_, _, _, _)
Dispatch(st, l, e, t) ==
    IF e > Len(INTERESTING) THEN st
    ELSE LET m == Matches[l][e]
             st2 == IF m.matched
                    THEN [Callback(INTERESTING[e], m, st, t)
                            EXCEPT !.called = Append(@, INTERESTING[e])]
                    ELSE st
         IN  IF NextEntry(e, m.matched) THEN Dispatch(st2, l, e + 1, t) ELSE st2

\* ------------------------------------------------------------------- main
\* The state when main has created the results dictionary.
Init ==
    /\ guard_time_seconds \in TimeSettings
    /\ inactivity_time_seconds \in TimeSettings
    /\ keep_going_flag = TRUE
    /\ now = 0
    /\ results = [finished |-> FALSE, reboots |-> 0, items_run |-> 0,
                  items_failed |-> 0, items_ignored |-> 0,
                  overall_start_time |-> 0, last_start_time |-> 0,
                  outcomes |-> << >>]
    /\ pc = "main"
    /\ return_value = -1
    /\ start_time = 0
    /\ last_activity_time = 0
    /\ exit_cause = "none"
    /\ timer_msg = "none"
    /\ readline_thread = "not_started"
    /\ read_queue = << >>
    /\ transport_out = << >>
    /\ log = << >>
    /\ finish_timers = << >>
    /\ send_first_failed = FALSE
    /\ report = None
    /\ grace_lines = None
    /\ item_start = [n \in ItemNames |-> None]
    /\ report_args = None
    /\ connection_type = "SERIAL"
    /\ in_handle = << >>
    /\ handle_pos = 0
    /\ lines_returned = << >>
    /\ readline_raised = FALSE
    /\ handle_written = << >>
    /\ NoRun

\* main starting the readline_and_queue thread before esp32_send_first.
Main_StartingThreadFirst ==
    /\ pc = "main"
    /\ \E send_string \in {None, Some("s")} :
         IF send_string = None
         THEN /\ pc' = "watch_items"
              /\ results' = [results EXCEPT !.overall_start_time = now]
              /\ UNCHANGED readline_thread
         ELSE /\ pc' = "esp32_send_first"
              /\ readline_thread' = "while"
              /\ UNCHANGED results
    /\ UNCHANGED << guard_time_seconds, inactivity_time_seconds,
                    keep_going_flag, now, return_value, start_time,
                    last_activity_time, exit_cause, timer_msg,
                    read_queue, transport_out, log,
                    finish_timers, send_first_failed, report, grace_lines,
                    item_start, report_args >>
    /\ UNCHANGED << reader_vars, handle_written, zephyr_vars >>

\* main, up to the call of watch_items: without a send_string it goes
\* straight on, with one it calls esp32_send_first.
Main ==
    /\ pc = "main"
    /\ \E send_string \in {None, Some("s")} :
         IF send_string = None
         THEN /\ pc' = "watch_items"
              /\ results' = [results EXCEPT !.overall_start_time = now]
         ELSE /\ pc' = "esp32_send_first"
              /\ UNCHANGED results
    /\ UNCHANGED << guard_time_seconds, inactivity_time_seconds,
                    keep_going_flag, now, return_value, start_time,
                    last_activity_time, exit_cause, timer_msg,
                    readline_thread, read_queue, transport_out, log,
                    finish_timers, send_first_failed, report, grace_lines,
                    item_start, report_args >>
    /\ UNCHANGED << reader_vars, handle_written, zephyr_vars >>

\* What esp32_send_first has written to in_handle after n of its three
\* writes: a newline that makes the target list its tests, the string, and
\* the newline that ends it.
Written(n) == SubSeq(<< "\\r\\n", "s", "\\r\\n" >>, 1, n)

\* main going on to watch_items whatever esp32_send_first returned.
esp32_send_first_Unchecked ==
    /\ pc = "esp32_send_first"
    /\ \E success \in BOOLEAN :
         /\ pc' = "watch_items"
         /\ results' = [results EXCEPT !.overall_start_time = now]
         /\ send_first_failed' = (send_first_failed \/ ~success)
         /\ \E n \in 0..3 : /\ (n = 3) = success
                            /\ handle_written' = Written(n)
    /\ UNCHANGED << guard_time_seconds, inactivity_time_seconds,
                    keep_going_flag, now, return_value, start_time,
                    last_activity_time, exit_cause, timer_msg,
                    readline_thread, read_queue, transport_out, log,
                    finish_timers, report, grace_lines,
                    item_start, report_args >>
    /\ UNCHANGED << reader_vars, zephyr_vars >>

\* esp32_send_first: it reads what the target has to say, writes the string
\* and returns True, unless the port raises serial.SerialException on the
\* way and it returns False.  What it reads is not passed on to anyone.
esp32_send_first ==
    /\ pc = "esp32_send_first"
    /\ \E success \in BOOLEAN :
         IF success
         THEN /\ pc' = "watch_items"
              /\ results' = [results EXCEPT !.overall_start_time = now]
              /\ UNCHANGED send_first_failed
              /\ handle_written' = Written(3)
         ELSE /\ pc' = "write_report"
              /\ send_first_failed' = TRUE
              /\ \E n \in 0..2 : handle_written' = Written(n)
              /\ UNCHANGED results
    /\ UNCHANGED << guard_time_seconds, inactivity_time_seconds,
                    keep_going_flag, now, return_value, start_time,
                    last_activity_time, exit_cause, timer_msg,
                    readline_thread, read_queue, transport_out, log,
                    finish_timers, report, grace_lines,
                    item_start, report_args >>
    /\ UNCHANGED << reader_vars, zephyr_vars >>

\* ------------------------------------------------------------- watch_items
\* The start of watch_items: the times are taken and the thread is started.
WatchStart ==
    /\ pc = "watch_items"
    /\ return_value' = -1
    /\ start_time' = now
    /\ last_activity_time' = now
    /\ readline_thread' = "while"
    /\ pc' = "while"
    /\ UNCHANGED << guard_time_seconds, inactivity_time_seconds,
                    keep_going_flag, now, results, exit_cause, timer_msg,
                    read_queue, transport_out, log, finish_timers,
                    send_first_failed, report, grace_lines,
                    item_start, report_args >>
    /\ UNCHANGED << reader_vars, handle_written, zephyr_vars >>

\* u_utils.keep_going(keep_going_flag, ...).
keep_going(flag) == flag

GuardRunning ==
    \/ ~Truthy(guard_time_seconds)
    \/ now - start_time < Budget(guard_time_seconds)

InactivityRunning ==
    \/ ~Truthy(inactivity_time_seconds)
    \/ now - last_activity_time < Budget(inactivity_time_seconds)

\* The condition of the while loop; "and" stops at the first false conjunct.
WhileCondition ==
    /\ keep_going(keep_going_flag)
    /\ ~results.finished
    /\ GuardRunning
    /\ InactivityRunning

FirstFalse ==
    IF ~keep_going(keep_going_flag) THEN "keep_going"
    ELSE IF results.finished THEN "finished"
    ELSE IF ~GuardRunning THEN "guard"
    ELSE "inactivity"

\* One evaluation of the while condition.  When it is false the loop is left
\* and results["finished"] is set to stop the read thread.
WhileTest ==
    /\ pc = "while"
    /\ IF WhileCondition
       THEN /\ pc' = "get"
            /\ UNCHANGED << results, exit_cause >>
       ELSE /\ pc' = "join"
            /\ exit_cause' = FirstFalse
            /\ results' = [results EXCEPT !.finished = TRUE]
    /\ UNCHANGED << guard_time_seconds, inactivity_time_seconds,
                    keep_going_flag, now, return_value, start_time,
                    last_activity_time, timer_msg, readline_thread,
                    read_queue, transport_out, log, finish_timers,
                    send_first_failed, report, grace_lines,
                    item_start, report_args >>
    /\ UNCHANGED << reader_vars, handle_written, zephyr_vars >>

\* QueueGet with read_queue.get() waiting for a line without a timeout.
QueueGet_Blocking ==
    /\ pc = "get"
    /\ read_queue # << >>
    /\ LET line == Head(read_queue)
           st == Dispatch([results |-> results, timers |-> finish_timers,
                           called |-> << >>], line, 1, now)
       IN  /\ read_queue' = Tail(read_queue)
           /\ last_activity_time' = now
           /\ log' = Append(log, line)
           /\ results' = st.results
           /\ finish_timers' = st.timers
           /\ item_start' = Started(item_start, line, now)
    /\ pc' = "while"
    /\ UNCHANGED << guard_time_seconds, inactivity_time_seconds,
                    keep_going_flag, now, return_value, start_time,
                    exit_cause, timer_msg, readline_thread, transport_out,
                    send_first_failed, report, grace_lines, report_args >>
    /\ UNCHANGED << reader_vars, handle_written, zephyr_vars >>

\* read_queue.get(timeout=0.5) and the rest of the loop body: a line is
\* logged and tried against every entry of INTERESTING; queue.Empty is
\* passed over.
QueueGet ==
    /\ pc = "get"
    /\ IF read_queue # << >>
       THEN LET line == Head(read_queue)
                st == Dispatch([results |-> results, timers |-> finish_timers,
                                called |-> << >>], line, 1, now)
            IN  /\ read_queue' = Tail(read_queue)
                /\ last_activity_time' = now
                /\ log' = Append(log, line)
                /\ results' = st.results
                /\ finish_timers' = st.timers
                /\ item_start' = Started(item_start, line, now)
       ELSE UNCHANGED << read_queue, last_activity_time, log, results,
                         finish_timers, item_start >>
    /\ pc' = "while"
    /\ UNCHANGED << guard_time_seconds, inactivity_time_seconds,
                    keep_going_flag, now, return_value, start_time,
                    exit_cause, timer_msg, readline_thread, transport_out,
                    send_first_failed, report, grace_lines, report_args >>
    /\ UNCHANGED << reader_vars, handle_written, zephyr_vars >>

\* AfterJoin returning the failed items alone.
AfterJoin_FailedOnly ==
    IF Truthy(guard_time_seconds)
       /\ now - start_time >= Budget(guard_time_seconds)
    THEN [msg |-> "guard", value |-> return_value]
    ELSE IF Truthy(inactivity_time_seconds)
            /\ now - last_activity_time >= Budget(inactivity_time_seconds)
    THEN [msg |-> "inactivity", value |-> return_value]
    ELSE [msg |-> "none", value |-> results.items_failed]

\* AfterJoin without the inactivity branch.
AfterJoin_GuardOnly ==
    IF Truthy(guard_time_seconds)
       /\ now - start_time >= Budget(guard_time_seconds)
    THEN [msg |-> "guard", value |-> return_value]
    ELSE [msg |-> "none", value |-> results.items_failed + results.reboots]

\* What watch_items returns, and the message it prints, once the thread has
\* been joined.
AfterJoin ==
    IF Truthy(guard_time_seconds)
       /\ now - start_time >= Budget(guard_time_seconds)
    THEN [msg |-> "guard", value |-> return_value]
    ELSE IF Truthy(inactivity_time_seconds)
            /\ now - last_activity_time >= Budget(inactivity_time_seconds)
    THEN [msg |-> "inactivity", value |-> return_value]
    ELSE [msg |-> "none", value |-> results.items_failed + results.reboots]

\* Join without the join: watch_items goes on without waiting for the thread.
Join_NotWaiting ==
    /\ pc = "join"
    /\ timer_msg' = AfterJoin.msg
    /\ return_value' = AfterJoin.value
    /\ pc' = "write_report"
    /\ UNCHANGED << guard_time_seconds, inactivity_time_seconds,
                    keep_going_flag, now, results, start_time,
                    last_activity_time, exit_cause, readline_thread,
                    read_queue, transport_out, log, finish_timers,
                    send_first_failed, report, grace_lines,
                    item_start, report_args >>
    /\ UNCHANGED << reader_vars, handle_written, zephyr_vars >>

\* Join emptying read_queue into the log and the handlers before it returns.
Join_Draining ==
    /\ pc = "join"
    /\ readline_thread \in {"ended", "raised"}
    /\ IF read_queue # << >>
       THEN LET line == Head(read_queue)
                st == Dispatch([results |-> results, timers |-> finish_timers,
                                called |-> << >>], line, 1, now)
            IN  /\ read_queue' = Tail(read_queue)
                /\ log' = Append(log, line)
                /\ results' = st.results
                /\ finish_timers' = st.timers
                /\ UNCHANGED << timer_msg, return_value, pc >>
       ELSE /\ timer_msg' = AfterJoin.msg
            /\ return_value' = AfterJoin.value
            /\ pc' = "write_report"
            /\ UNCHANGED << read_queue, log, results, finish_timers >>
    /\ UNCHANGED << guard_time_seconds, inactivity_time_seconds,
                    keep_going_flag, now, start_time,
                    last_activity_time, exit_cause, readline_thread,
                    transport_out, send_first_failed, report, grace_lines,
                    item_start, report_args >>
    /\ UNCHANGED << reader_vars, handle_written, zephyr_vars >>

\* readline_thread.join() returns when the thread has ended, whichever way.
Join ==
    /\ pc = "join"
    /\ readline_thread \in {"ended", "raised"}
    /\ timer_msg' = AfterJoin.msg
    /\ return_value' = AfterJoin.value
    /\ pc' = "write_report"
    /\ UNCHANGED << guard_time_seconds, inactivity_time_seconds,
                    keep_going_flag, now, results, start_time,
                    last_activity_time, exit_cause, readline_thread,
                    read_queue, transport_out, log, finish_timers,
                    send_first_failed, report, grace_lines,
                    item_start, report_args >>
    /\ UNCHANGED << reader_vars, handle_written, zephyr_vars >>

\* One "<testcase ...>" line of the report: the fields it is formatted from.
Testcase(outcome) ==
    [classname |-> "ubxlib_tests", name |-> outcome[1], time |-> outcome[2],
     status |-> outcome[3]]

\* WriteReport with the attributes of the envelope counted from the outcomes.
WriteReport_CountingEntries ==
    /\ pc = "write_report"
    /\ \E test_report_handle \in BOOLEAN, instance \in BOOLEAN :
         /\ report_args' = Some([test_report_handle |-> test_report_handle,
                                  instance |-> instance])
         /\ report' = IF test_report_handle /\ instance
                      THEN Some([tests |-> Len(results.outcomes),
                                 failures |->
                                     Cardinality({i \in 1..Len(results.outcomes) :
                                         results.outcomes[i][3] = "FAIL"}),
                                 testcases |->
                                     [i \in 1..Len(results.outcomes) |->
                                         Testcase(results.outcomes[i])]])
                      ELSE None
    /\ pc' = "done"
    /\ UNCHANGED << guard_time_seconds, inactivity_time_seconds,
                    keep_going_flag, now, results, return_value, start_time,
                    last_activity_time, exit_cause, timer_msg,
                    readline_thread, read_queue, transport_out, log,
                    finish_timers, send_first_failed, grace_lines,
                    item_start >>
    /\ UNCHANGED << reader_vars, handle_written, zephyr_vars >>

\* The end of main: the report is written when test_report_handle and
\* instance are both true; each is None (or an empty instance) or not.
WriteReport ==
    /\ pc = "write_report"
    /\ \E test_report_handle \in BOOLEAN, instance \in BOOLEAN :
         /\ report_args' = Some([test_report_handle |-> test_report_handle,
                                  instance |-> instance])
         /\ report' = IF test_report_handle /\ instance
                      THEN Some([tests |-> results.items_run,
                                 failures |-> results.items_failed,
                                 testcases |->
                                     [i \in 1..Len(results.outcomes) |->
                                         Testcase(results.outcomes[i])]])
                      ELSE None
    /\ pc' = "done"
    /\ UNCHANGED << guard_time_seconds, inactivity_time_seconds,
                    keep_going_flag, now, results, return_value, start_time,
                    last_activity_time, exit_cause, timer_msg,
                    readline_thread, read_queue, transport_out, log,
                    finish_timers, send_first_failed, grace_lines,
                    item_start >>
    /\ UNCHANGED << reader_vars, handle_written, zephyr_vars >>

\* ------------------------------------------------------- readline_and_queue
\* PumpWhile going on reading whatever results['finished'] says.
PumpWhile_Forever ==
    /\ readline_thread = "while"
    /\ readline_thread' = "pwar_readline"
    /\ UNCHANGED << guard_time_seconds, inactivity_time_seconds,
                    keep_going_flag, now, results, pc, return_value,
                    start_time, last_activity_time, exit_cause, timer_msg,
                    read_queue, transport_out, log, finish_timers,
                    send_first_failed, report, grace_lines,
                    item_start, report_args >>
    /\ UNCHANGED << reader_vars, handle_written, zephyr_vars >>

\* "while not results['finished']".
PumpWhile ==
    /\ readline_thread = "while"
    /\ readline_thread' = IF results.finished THEN "ended" ELSE "pwar_readline"
    /\ UNCHANGED << guard_time_seconds, inactivity_time_seconds,
                    keep_going_flag, now, results, pc, return_value,
                    start_time, last_activity_time, exit_cause, timer_msg,
                    read_queue, transport_out, log, finish_timers,
                    send_first_failed, report, grace_lines,
                    item_start, report_args >>
    /\ UNCHANGED << reader_vars, handle_written, zephyr_vars >>

\* PumpRead with "if line is not None" for "if line": an empty line is
\* queued too.
PumpRead_QueueingEmpty ==
    /\ readline_thread = "pwar_readline"
    /\ Len(read_queue) < MaxLines
    /\ \E r \in ReadResults :
         /\ IF LineTruthy(r)
            THEN /\ Len(transport_out) < MaxLines
                 /\ transport_out' = Append(transport_out, r[1])
            ELSE UNCHANGED transport_out
         /\ read_queue' = IF r # None THEN Append(read_queue, r[1])
                          ELSE read_queue
    /\ readline_thread' = "while"
    /\ UNCHANGED << guard_time_seconds, inactivity_time_seconds,
                    keep_going_flag, now, results, pc, return_value,
                    start_time, last_activity_time, exit_cause, timer_msg,
                    log, finish_timers, send_first_failed, report, grace_lines,
                    item_start, report_args >>
    /\ UNCHANGED << reader_vars, handle_written, zephyr_vars >>

\* pwar_readline returns r and "if line: read_queue.put(line)".
PumpRead ==
    /\ readline_thread = "pwar_readline"
    /\ \E r \in ReadResults :
         IF LineTruthy(r)
         THEN /\ Len(transport_out) < MaxLines
              /\ transport_out' = Append(transport_out, r[1])
              /\ read_queue' = Append(read_queue, r[1])
         ELSE UNCHANGED << transport_out, read_queue >>
    /\ readline_thread' = "while"
    /\ UNCHANGED << guard_time_seconds, inactivity_time_seconds,
                    keep_going_flag, now, results, pc, return_value,
                    start_time, last_activity_time, exit_cause, timer_msg,
                    log, finish_timers, send_first_failed, report, grace_lines,
                    item_start, report_args >>
    /\ UNCHANGED << reader_vars, handle_written, zephyr_vars >>

\* PumpRaise with the read thread setting "finished" itself on its way out.
PumpRaise_Finishing ==
    /\ readline_thread = "pwar_readline"
    /\ readline_thread' = "raised"
    /\ results' = [results EXCEPT !.finished = TRUE]
    /\ UNCHANGED << guard_time_seconds, inactivity_time_seconds,
                    keep_going_flag, now, pc, return_value,
                    start_time, last_activity_time, exit_cause, timer_msg,
                    read_queue, transport_out, log, finish_timers,
                    send_first_failed, report, grace_lines,
                    item_start, report_args >>
    /\ UNCHANGED << reader_vars, handle_written, zephyr_vars >>

\* pwar_readline raises (the port is gone): nothing in readline_and_queue
\* catches it, so the thread ends there.
PumpRaise ==
    /\ readline_thread = "pwar_readline"
    /\ readline_thread' = "raised"
    /\ UNCHANGED << guard_time_seconds, inactivity_time_seconds,
                    keep_going_flag, now, results, pc, return_value,
                    start_time, last_activity_time, exit_cause, timer_msg,
                    read_queue, transport_out, log, finish_timers,
                    send_first_failed, report, grace_lines,
                    item_start, report_args >>
    /\ UNCHANGED << reader_vars, handle_written, zephyr_vars >>

\* ------------------------------------------------------------- the others
\* A Timer started by reboot_callback runs delayed_finish when it is due.
TimerFire ==
    /\ \E i \in 1..Len(finish_timers) :
         /\ now >= finish_timers[i]
         /\ finish_timers' = SubSeq(finish_timers, 1, i - 1)
                             \o SubSeq(finish_timers, i + 1, Len(finish_timers))
    /\ results' = delayed_finish(results)
    /\ grace_lines' = IF results.finished THEN grace_lines
                      ELSE Some(Len(transport_out))
    /\ UNCHANGED << guard_time_seconds, inactivity_time_seconds,
                    keep_going_flag, now, pc, return_value, start_time,
                    last_activity_time, exit_cause, timer_msg,
                    readline_thread, read_queue, transport_out, log,
                    send_first_failed, report, item_start, report_args >>
    /\ UNCHANGED << reader_vars, handle_written, zephyr_vars >>

\* The owner of keep_going_flag asks the session to stop.
Cancel ==
    /\ pc # "done"
    /\ keep_going_flag
    /\ keep_going_flag' = FALSE
    /\ UNCHANGED << guard_time_seconds, inactivity_time_seconds, now,
                    results, pc, return_value, start_time,
                    last_activity_time, exit_cause, timer_msg,
                    readline_thread, read_queue, transport_out, log,
                    finish_timers, send_first_failed, report, grace_lines,
                    item_start, report_args >>
    /\ UNCHANGED << reader_vars, handle_written, zephyr_vars >>

\* A tick passes while watch_items runs.  (Before it nothing is timed but
\* the start times themselves, after it nothing reads the clock.)
Tick ==
    /\ pc \in {"while", "get", "join"}
    /\ now < MaxTime
    /\ now' = now + 1
    /\ UNCHANGED << guard_time_seconds, inactivity_time_seconds,
                    keep_going_flag, results, pc, return_value, start_time,
                    last_activity_time, exit_cause, timer_msg,
                    readline_thread, read_queue, transport_out, log,
                    finish_timers, send_first_failed, report, grace_lines,
                    item_start, report_args >>
    /\ UNCHANGED << reader_vars, handle_written, zephyr_vars >>

Next ==
    \/ Main
    \/ esp32_send_first
    \/ WatchStart
    \/ WhileTest
    \/ QueueGet
    \/ Join
    \/ WriteReport
    \/ PumpWhile
    \/ PumpRead
    \/ PumpRaise
    \/ TimerFire
    \/ Cancel
    \/ Tick

Spec == Init /\ [][Next]_vars

\* The threads run whenever they can: the thread of main, the read thread
\* (every call of pwar_readline returns or raises), the Timer threads and
\* the clock up to MaxTime.  Nothing obliges the caller to cancel.
MainThread ==
    \/ Main
    \/ esp32_send_first
    \/ WatchStart
    \/ WhileTest
    \/ QueueGet
    \/ Join
    \/ WriteReport

ReadThread == PumpWhile \/ PumpRead \/ PumpRaise

FairSpec ==
    /\ Spec
    /\ WF_vars(MainThread)
    /\ WF_vars(ReadThread)
    /\ WF_vars(TimerFire)
    /\ WF_vars(Tick)

\* The same when nothing makes a call of pwar_readline return: the thread of
\* main, the Timer threads and the clock go on, the read thread may stay in
\* in_handle.read() for ever.
StalledSpec ==
    /\ Spec
    /\ WF_vars(MainThread)
    /\ WF_vars(TimerFire)
    /\ WF_vars(Tick)

\* -------------------------------------------- the loop of watch_items alone
\* The loop of watch_items seen from its own thread, whatever the other
\* threads do: each iteration in which read_queue.get returns a line logs it
\* and tries it against INTERESTING, and time passes in between.  The line
\* may be any the transport can return and no timer is set.
HandlerInit ==
    /\ guard_time_seconds = None
    /\ inactivity_time_seconds = None
    /\ keep_going_flag = TRUE
    /\ now = 0
    /\ results = [finished |-> FALSE, reboots |-> 0, items_run |-> 0,
                  items_failed |-> 0, items_ignored |-> 0,
                  overall_start_time |-> 0, last_start_time |-> 0,
                  outcomes |-> << >>]
    /\ pc = "get"
    /\ return_value = -1
    /\ start_time = 0
    /\ last_activity_time = 0
    /\ exit_cause = "none"
    /\ timer_msg = "none"
    /\ readline_thread = "while"
    /\ read_queue = << >>
    /\ transport_out = << >>
    /\ log = << >>
    /\ finish_timers = << >>
    /\ send_first_failed = FALSE
    /\ report = None
    /\ grace_lines = None
    /\ item_start = [n \in ItemNames |-> None]
    /\ report_args = None
    /\ connection_type = "SERIAL"
    /\ in_handle = << >>
    /\ handle_pos = 0
    /\ lines_returned = << >>
    /\ readline_raised = FALSE
    /\ handle_written = << >>
    /\ NoRun

\* One iteration of the loop that gets a line: the while condition held, so
\* "finished" was not set.
Classify ==
    /\ pc = "get"
    /\ ~results.finished
    /\ Len(log) < MaxFeed
    /\ \E line \in {l \in LineIds : LineText[l] # << >>} :
         LET st == Dispatch([results |-> results, timers |-> finish_timers,
                             called |-> << >>], line, 1, now)
         IN  /\ transport_out' = Append(transport_out, line)
             /\ last_activity_time' = now
             /\ log' = Append(log, line)
             /\ results' = st.results
             /\ finish_timers' = st.timers
             /\ item_start' = Started(item_start, line, now)
    /\ UNCHANGED << guard_time_seconds, inactivity_time_seconds,
                    keep_going_flag, now, pc, return_value, start_time,
                    exit_cause, timer_msg, readline_thread, read_queue,
                    send_first_failed, report, grace_lines, report_args >>
    /\ UNCHANGED << reader_vars, handle_written, zephyr_vars >>

HandlerNext == Classify \/ Tick

HandlerSpec == HandlerInit /\ [][HandlerNext]_vars

\* ---------------------------------------------------- pwar_readline alone
\* The bytes a device can send: a letter, a newline, the terminator that
\* main is given ("\\r") and a byte that is not ASCII.
Terminator == "\\r"

Bad == "\\x80"

Bytes == {"a", "\\n", Terminator, Bad}

\* What str.strip() removes from both ends.
Whitespace == {" ", "\\n", "\\r", "\\t"}

\* s.lstrip(chars) and s.rstrip(chars).
RECURSIVE LStrip(_, _)
LStrip(s, chars) ==
    IF s # << >> /\ Head(s) \in chars THEN LStrip(Tail(s), chars) ELSE s

RECURSIVE RStrip(_, _)
RStrip(s, chars) ==
    IF s # << >> /\ s[Len(s)] \in chars
    THEN RStrip(SubSeq(s, 1, Len(s) - 1), chars) ELSE s

\* s.strip()
Strip(s) == LStrip(RStrip(s, Whitespace), Whitespace)

\* The index of the first t in the first k bytes of s, or 0.
FirstIn(s, k, t) ==
    IF \E i \in 1..k : s[i] = t
    THEN CHOOSE i \in 1..k : s[i] = t /\ \A j \in 1..(i - 1) : s[j] # t
    ELSE 0

\* The CONNECTION_TELNET branch: read_until(terminator, 1) returns up to the
\* terminator, or what there is when the second is over; a chunk that does
\* not decode leaves line as "", and "" is turned into None.
TelnetBranch(s, t, k) ==
    LET j == FirstIn(s, k, t)
        chunk == SubSeq(s, 1, IF j # 0 THEN j ELSE k)
        line == IF \E i \in 1..Len(chunk) : chunk[i] = Bad THEN << >> ELSE chunk
    IN  [raised |-> FALSE,
         value |-> IF line # << >>
                   THEN Some(LStrip(RStrip(line, {t}), {"\\n"}))
                   ELSE None,
         used |-> Len(chunk)]

\* The while loop of the CONNECTION_SERIAL / CONNECTION_RTT and of the
\* CONNECTION_PIPE branch from byte i on, with line as accumulated so far.
\* When read(1) has nothing to give the serial branch sets line to None;
\* the pipe branch goes on until its 5 seconds are over and returns line as
\* it is.  UnicodeDecodeError is caught outside the loop: line is returned
\* as it is.
RECURSIVE ByteLoop(_, _, _, _, _, _)
ByteLoop(ct, s, t, k, i, line) ==
    IF i > k
    THEN [raised |-> FALSE,
          value |-> IF ct = "PIPE" THEN Some(line) ELSE None,
          used |-> k]
    ELSE IF s[i] = Bad
    THEN [raised |-> FALSE, value |-> Some(line), used |-> i]
    ELSE IF s[i] = t
    THEN [raised |-> FALSE, value |-> Some(Strip(line)), used |-> i]
    ELSE ByteLoop(ct, s, t, k, i + 1, Append(line, s[i]))

\* pwar_readline without its "except UnicodeDecodeError" clauses.
pwar_readline_NotCatching(s, ct, t, k) ==
    LET r == IF ct = "TELNET" THEN TelnetBranch(s, t, k)
             ELSE ByteLoop(ct, s, t, k, 1, << >>)
    IN  IF \E i \in 1..r.used : s[i] = Bad
        THEN [raised |-> TRUE, value |-> None, used |-> r.used]
        ELSE r

\* pwar_readline(in_handle, connection_type, terminator) when s is what
\* in_handle has not given yet and the first k bytes of s are those it gives
\* during this call (before read(1) comes back empty, before the 5 seconds
\* of the pipe branch or the second of read_until are over): whether it
\* raised, the value it returned and how many bytes it read.
pwar_readline(s, ct, t, k) ==
    IF ct = "TELNET" THEN TelnetBranch(s, t, k)
    ELSE ByteLoop(ct, s, t, k, 1, << >>)

\* The sequences over S of length n, and of length up to n.
RECURSIVE SeqsOfLen(_, _)
SeqsOfLen(S, n) ==
    IF n = 0 THEN {<< >>}
    ELSE {Append(q, x) : q \in SeqsOfLen(S, n - 1), x \in S}

SeqsUpTo(S, n) == UNION {SeqsOfLen(S, m) : m \in 0..n}

\* Any device, any kind of connection, nothing read yet; no session runs.
ReaderInit ==
    /\ connection_type \in {"TELNET", "SERIAL", "PIPE"}
    /\ in_handle \in SeqsUpTo(Bytes, MaxStream)
    /\ handle_pos = 0
    /\ lines_returned = << >>
    /\ readline_raised = FALSE
    /\ handle_written = << >>
    /\ NoRun
    /\ guard_time_seconds = None
    /\ inactivity_time_seconds = None
    /\ keep_going_flag = TRUE
    /\ now = 0
    /\ results = [finished |-> FALSE, reboots |-> 0, items_run |-> 0,
                  items_failed |-> 0, items_ignored |-> 0,
                  overall_start_time |-> 0, last_start_time |-> 0,
                  outcomes |-> << >>]
    /\ pc = "main"
    /\ return_value = -1
    /\ start_time = 0
    /\ last_activity_time = 0
    /\ exit_cause = "none"
    /\ timer_msg = "none"
    /\ readline_thread = "not_started"
    /\ read_queue = << >>
    /\ transport_out = << >>
    /\ log = << >>
    /\ finish_timers = << >>
    /\ send_first_failed = FALSE
    /\ report = None
    /\ grace_lines = None
    /\ item_start = [n \in ItemNames |-> None]
    /\ report_args = None

\* The bytes in_handle has not given yet.
Unread == SubSeq(in_handle, handle_pos + 1, Len(in_handle))

\* One call of pwar_readline while there is something left to read.
ReadLine ==
    /\ ~readline_raised
    /\ Unread # << >>
    /\ \E k \in 0..Len(Unread) :
         LET r == pwar_readline(Unread, connection_type, Terminator, k)
         IN  /\ handle_pos' = handle_pos + r.used
             /\ lines_returned' =
                    IF r.value # None /\ r.value[1] # << >>
                    THEN Append(lines_returned, r.value[1])
                    ELSE lines_returned
             /\ readline_raised' = r.raised
    /\ UNCHANGED << connection_type, in_handle, session_vars,
                    handle_written, zephyr_vars >>

ReaderNext == ReadLine

ReaderSpec == ReaderInit /\ [][ReaderNext]_vars

\* ------------------------------------------------------ about the state
\* The threads of the session that are running: the one that runs main, the
\* read thread between its start and its end, and the Timer threads pending.
ThreadCount ==
    1 + (IF readline_thread \in {"while", "pwar_readline"} THEN 1 ELSE 0)
      + Len(finish_timers)

\* The callbacks the loop over INTERESTING calls for line l, in order.
Invoked(l) ==
    Dispatch([results |-> results, timers |-> << >>, called |-> << >>],
             l, 1, 0).called

CallsCallback(l, name) == \E i \in 1..Len(Invoked(l)) : Invoked(l)[i] = name

\* How many of the callbacks called for line l are among names.
CallCount(l, names) ==
    Cardinality({i \in 1..Len(Invoked(l)) : Invoked(l)[i] \in names})

\* How many reboot_callback calls the lines of ls have caused.
RECURSIVE RebootsIn(_)
RebootsIn(ls) ==
    IF ls = << >> THEN 0
    ELSE RebootsIn(Tail(ls))
         + Cardinality({i \in 1..Len(Invoked(Head(ls))) :
                           Invoked(Head(ls))[i] = "reboot_callback"})

SummaryClassified == \E i \in 1..Len(log) : CallsCallback(log[i], "finish_callback")

\* main has returned.
Returned == pc = "done"

\* watch_items was called and has returned.
Watched == pc \in {"write_report", "done"} /\ ~send_first_failed

\* A step in which a line is taken from the queue, and that line.
Dequeues == Len(log') = Len(log) + 1

Dequeued == log'[Len(log')]

\* --------------------------------------------------------------- the claims

\* C1: whenever the while loop ends because a handler set "finished" (a
\* run-finished line or the delayed finish of a reboot), main returns
\* items_failed + reboots.
C1_CompletedReturnsCount ==
    (Returned /\ exit_cause = "finished")
        => return_value = results.items_failed + results.reboots

\* C2: when the loop ends because keep_going is false, with "finished" false
\* and no timer expired, main returns the negative value, never one >= 0.
C2_CancelledReturnsNegative ==
    (Returned /\ exit_cause = "keep_going" /\ timer_msg = "none")
        => return_value < 0

\* C3: once a transport read has raised in the read thread while the loop
\* runs, the session eventually returns (with the negative value, the claim
\* adds), also when no guard time and no inactivity time is set and, as long
\* as it has not returned, the caller does not cancel.
C3_TransportErrorEndsSession ==
    (/\ readline_thread = "raised"
     /\ pc \in {"while", "get"}
     /\ ~Truthy(guard_time_seconds)
     /\ ~Truthy(inactivity_time_seconds))
        ~> (Returned \/ ~keep_going_flag)

\* C4: at most one callback is called for a dequeued line (that of the first
\* matching entry), so a line appends at most one outcome.
C4_FirstMatchWins ==
    /\ \A i \in 1..Len(log) : Len(Invoked(log[i])) <= 1
    /\ Len(results.outcomes) <= Len(log)

C6_RebootCountsAndDoesNotFinish ==
    [][Dequeues =>
        /\ CallsCallback(Dequeued, "reboot_callback")
             => /\ results'.reboots = results.reboots + 1
                /\ results'.finished = results.finished
                /\ Len(finish_timers') = Len(finish_timers) + 1
        /\ (finish_timers # << >> /\ CallsCallback(Dequeued, "fail_callback")
               /\ ~CallsCallback(Dequeued, "finish_callback"))
             => /\ results'.items_failed = results.items_failed + 1
                /\ Len(results'.outcomes) > Len(results.outcomes)]_vars

C6_Witness ==
    /\ log = << 1, 4 >>
    /\ finish_timers # << >>
    /\ ~results.finished
    /\ results.reboots = 1
    /\ results.items_failed = 1

\* C7: main returns 0 only when a run-finished line was classified and
\* items_failed and reboots are 0; a session ended by a timer, by the caller
\* or by a failed start returns a negative value; any other returns a
\* positive one.
C7_ReturnCodeContract ==
    Returned =>
        /\ return_value = 0
             => /\ SummaryClassified
                /\ results.items_failed = 0
                /\ results.reboots = 0
        /\ (exit_cause \in {"guard", "inactivity", "keep_going"}
               \/ send_first_failed)
             => return_value < 0
        /\ (exit_cause = "finished" /\ return_value # 0) => return_value > 0

C9_ZeroOrAbsentIsUnbounded ==
    /\ [](guard_time_seconds \in {None, Some(0)}
             => (exit_cause # "guard" /\ timer_msg # "guard"))
    /\ [](inactivity_time_seconds \in {None, Some(0)}
             => (exit_cause # "inactivity" /\ timer_msg # "inactivity"))
    /\ [][(/\ pc = "while"
           /\ pc' # "while"
           /\ guard_time_seconds = Some(1)
           /\ now - start_time >= Seconds(1))
          => pc' = "join"]_vars

C9_Witness ==
    /\ guard_time_seconds = Some(0)
    /\ inactivity_time_seconds = None
    /\ now = MaxTime
    /\ pc = "get"
    /\ ~results.finished

\* C10: when esp32_send_first has returned False the read thread is never
\* started, no line is logged or classified, results keeps its initial
\* counts and outcomes, and main returns the negative value.
C10_FailedHandshakeNeverWatches ==
    send_first_failed =>
        /\ pc \in {"write_report", "done"}
        /\ readline_thread = "not_started"
        /\ log = << >>
        /\ transport_out = << >>
        /\ ~results.finished
        /\ results.reboots = 0
        /\ results.items_run = 0
        /\ results.items_failed = 0
        /\ results.items_ignored = 0
        /\ results.outcomes = << >>
        /\ return_value = -1

C10_Witness == send_first_failed /\ Returned

\* C11: once a summary line "N Tests M Failures K Ignored" has been
\* classified, items_run, items_failed and items_ignored are N, M and K,
\* "finished" is set, and main returns M + reboots.
C11_SummaryCountsAndReturn ==
    \A i \in 1..Len(log) :
        CallsCallback(log[i], "finish_callback") =>
            LET g == Matches[log[i]][8].groups
            IN  /\ results.items_run = ToInt(g[1])
                /\ results.items_failed = ToInt(g[2])
                /\ results.items_ignored = ToInt(g[3])
                /\ results.finished
                /\ Returned => return_value = ToInt(g[2]) + results.reboots

\* The name an outcome of line l is recorded under by entry e of INTERESTING
\* (6 for PASS, 7 for FAIL).
OutcomeName(l, e) == Matches[l][e].groups[1]

\* The outcomes a dequeued line l appends when the durations are d.
OutcomesOf(l, d) ==
    (IF Matches[l][6].matched
     THEN << << OutcomeName(l, 6), d, "PASS" >> >> ELSE << >>)
    \o (IF Matches[l][7].matched
        THEN << << OutcomeName(l, 7), d, "FAIL" >> >> ELSE << >>)

\* The latest time in the optional times of f, or t0 when there is none.
LatestStart(f, t0) ==
    LET ts == {f[n][1] : n \in {x \in DOMAIN f : f[x] # None}}
    IN  IF ts = {} THEN t0 ELSE CHOOSE t \in ts : \A u \in ts : u <= t

C13_ReportMatchesOutcomes ==
    Returned =>
        IF report_args[1].test_report_handle
        THEN /\ report # None
             /\ Len(report[1].testcases) = Len(results.outcomes)
             /\ \A i \in 1..Len(results.outcomes) :
                    /\ report[1].testcases[i].name = results.outcomes[i][1]
                    /\ report[1].testcases[i].time = results.outcomes[i][2]
                    /\ report[1].testcases[i].status = results.outcomes[i][3]
        ELSE report = None

\* C14: the lines dequeued so far, followed by the lines in the queue, are
\* the non-empty lines pwar_readline has returned, in the order it returned
\* them: what has been classified is a prefix of what the transport gave,
\* nothing is classified twice, out of order or made up, and no empty line
\* is ever queued or classified.
C14_PumpIsRelay ==
    /\ Len(log) + Len(read_queue) = Len(transport_out)
    /\ \A i \in 1..Len(log) : log[i] = transport_out[i]
    /\ \A i \in 1..Len(read_queue) : read_queue[i] = transport_out[Len(log) + i]
    /\ \A i \in 1..Len(read_queue) : LineText[read_queue[i]] # << >>
    /\ \A i \in 1..Len(log) : LineText[log[i]] # << >>

C14_Witness ==
    /\ log = << 2 >>
    /\ read_queue = << 3 >>
    /\ transport_out = << 2, 3 >>

C16_FinishedAndJoinedOnReturn ==
    /\ [](Watched => /\ results.finished
                     /\ readline_thread \in {"ended", "raised"})
    /\ [][Watched => /\ readline_thread' = readline_thread
                     /\ transport_out' = transport_out
                     /\ read_queue' = read_queue]_vars

C16_Witness ==
    /\ Returned
    /\ exit_cause = "inactivity"
    /\ readline_thread = "ended"
    /\ Len(transport_out) = MaxLines
    /\ results.finished

\* C17 as claimed: once a summary line has been classified,
\* items_failed <= items_run.
C17_FailedWithinRun ==
    SummaryClassified => results.items_failed <= results.items_run

\* C17 as amended: once a summary line "N Tests M Failures ..." with M <= N
\* has been classified, items_failed <= items_run; the numbers are taken
\* from the line as they come.
C17_FailedWithinRunWhenLineSaysSo ==
    \A i \in 1..Len(log) :
        (/\ CallsCallback(log[i], "finish_callback")
         /\ ToInt(Matches[log[i]][8].groups[2])
                <= ToInt(Matches[log[i]][8].groups[1]))
            => results.items_failed <= results.items_run

C17_Witness ==
    /\ log = << 4, 5 >>
    /\ results.items_run = 1
    /\ results.items_failed = 0
    /\ results.finished

\* C18: in every step outcomes keeps what it had and grows by one entry for
\* each pass_callback or fail_callback call made for the line dequeued in
\* that step, and by nothing in any other step.
C18_OutcomesOnlyAppended ==
    [][/\ Len(results'.outcomes) >= Len(results.outcomes)
       /\ SubSeq(results'.outcomes, 1, Len(results.outcomes)) = results.outcomes
       /\ Len(results'.outcomes) - Len(results.outcomes)
            = IF Dequeues
              THEN CallCount(Dequeued, {"pass_callback", "fail_callback"})
              ELSE 0
      ]_vars

C18_Witness ==
    /\ log = << 3, 4 >>
    /\ Len(results.outcomes) = 2
    /\ results.outcomes[1][3] = "PASS"
    /\ results.outcomes[2][3] = "FAIL"
    /\ Returned

\* C19: when the same line has been dequeued twice its callbacks have been
\* called twice: two outcomes for a PASS or FAIL line, 2 added to
\* items_failed by a FAIL line and 2 added to reboots by a fault line.
C19_NoDeduplication ==
    (Len(log) = 2 /\ log[1] = log[2]) =>
        /\ Len(results.outcomes)
             = 2 * CallCount(log[1], {"pass_callback", "fail_callback"})
        /\ results.items_failed = 2 * CallCount(log[1], {"fail_callback"})
        /\ results.reboots = 2 * CallCount(log[1], {"reboot_callback"})

C19_Witness ==
    /\ log = << 4, 4 >>
    /\ results.items_failed = 2
    /\ Len(results.outcomes) = 2

\* C20 as claimed: the step that dequeues an item-start line changes
\* last_start_time in results and nothing else.
C20_StartChangesStartTimeOnly ==
    [][(Dequeues /\ Invoked(Dequeued) = << "run_callback" >>)
          => results' = [results EXCEPT !.last_start_time = now]]_vars

\* C20 as amended: the step that dequeues an item-start line sets
\* last_start_time and adds 1 to items_run, and changes nothing else in
\* results: no outcome is recorded for an item started before.
C20_StartCountsItemToo ==
    [][(Dequeues /\ Invoked(Dequeued) = << "run_callback" >>)
          => results' = [results EXCEPT !.last_start_time = now,
                                        !.items_run = @ + 1]]_vars

C20_Witness ==
    /\ log = << 2, 10 >>
    /\ results.items_run = 2
    /\ results.outcomes = << >>
    /\ results.last_start_time = 1
    /\ ~results.finished

\* C21: the step that dequeues a FAIL line appends one FAIL outcome and adds
\* 1 to items_failed, the step that dequeues a PASS line appends one PASS
\* outcome, and neither changes anything else in results.
C21_PassFailFrame ==
    [][Dequeues =>
        /\ Invoked(Dequeued) = << "fail_callback" >>
             => results' =
                  [results EXCEPT
                     !.items_failed = @ + 1,
                     !.outcomes =
                        Append(@, << OutcomeName(Dequeued, 7),
                                     CeilSeconds(now - results.last_start_time),
                                     "FAIL" >>)]
        /\ Invoked(Dequeued) = << "pass_callback" >>
             => results' =
                  [results EXCEPT
                     !.outcomes =
                        Append(@, << OutcomeName(Dequeued, 6),
                                     CeilSeconds(now - results.last_start_time),
                                     "PASS" >>)]
      ]_vars

C21_Witness ==
    /\ log = << 4, 3 >>
    /\ results.items_failed = 1
    /\ results.items_run = 0
    /\ Len(results.outcomes) = 2
    /\ results.outcomes[2][3] = "PASS"
    /\ ~results.finished

\* ------------------------------------------------------ reading lines
\* The bytes in_handle has given so far.
Consumed == SubSeq(in_handle, 1, handle_pos)

\* TRUE when no byte of s fails to decode.
Clean(s) == \A i \in 1..Len(s) : s[i] # Bad

\* The stream s split at the terminator t: the text before each t, stripped
\* as line 203 strips it, without the empty ones that line 147 does not queue.
\* Bytes after the last t are a line that has not ended yet.
RECURSIVE SplitAt(_, _)
SplitAt(s, t) ==
    LET j == FirstIn(s, Len(s), t)
    IN  IF j = 0 THEN << >>
        ELSE LET head == Strip(SubSeq(s, 1, j - 1))
                 rest == SplitAt(SubSeq(s, j + 1, Len(s)), t)
             IN  IF head = << >> THEN rest ELSE << head >> \o rest

\* C22: on a serial or RTT connection no character read before a poll that
\* found no data is lost: whatever the gaps in the data, the lines returned so
\* far are the bytes read so far split at the terminator.
C22_SerialKeepsPartialLine ==
    (connection_type = "SERIAL" /\ Clean(Consumed))
        => lines_returned = SplitAt(Consumed, Terminator)

\* The index of the last t among the first k bytes of s, or 0.
LastIn(s, k, t) ==
    LET hits == {i \in 1..k : s[i] = t}
    IN  IF hits = {} THEN 0 ELSE CHOOSE i \in hits : \A h \in hits : h <= i

\* The text of s that ends at the terminator at position j: everything after
\* the terminator before it, or from the start of the stream.
LineEndingAt(s, j, t) == SubSeq(s, LastIn(s, j - 1, t) + 1, j - 1)

\* C23: on a pipe a call never hands an unterminated line to its caller: a
\* call that returns a line has just read a terminator, and the line is the
\* whole text between that terminator and the one before it.
C23_PipeNeverHandsPartialLine ==
    [][(connection_type = "PIPE" /\ Clean(in_handle)
            /\ lines_returned' # lines_returned)
        => /\ handle_pos' > 0
           /\ in_handle[handle_pos'] = Terminator
           /\ lines_returned' =
                  Append(lines_returned,
                         Strip(LineEndingAt(in_handle, handle_pos', Terminator)))
      ]_vars

\* The bytes of s that are not white space or the terminator.
Letters(s) == SelectSeq(s, LAMBDA b : b \notin Whitespace)

\* C24: a byte that does not decode never makes a call raise, on any kind of
\* connection, and the lines after it are still returned: once such a byte
\* has been read, a call that starts after it or after a terminator and reads
\* a clean line up to its terminator returns that line.
C24_DecodeErrorNeverEscapes ==
    /\ [](~readline_raised)
    /\ [][(/\ ~Clean(Consumed)
           /\ in_handle[handle_pos] \in {Bad, Terminator}
           /\ handle_pos' > handle_pos
           /\ in_handle[handle_pos'] = Terminator
           /\ Clean(SubSeq(in_handle, handle_pos + 1, handle_pos'))
           /\ Letters(SubSeq(in_handle, handle_pos + 1, handle_pos')) # << >>)
          => /\ Len(lines_returned') = Len(lines_returned) + 1
             /\ SubSeq(lines_returned', 1, Len(lines_returned)) = lines_returned
             /\ Letters(lines_returned'[Len(lines_returned')])
                    = Letters(SubSeq(in_handle, handle_pos + 1, handle_pos'))
         ]_vars

\* A stream that starts with a byte that does not decode has been read to
\* its end and the line after that byte was returned.
C24_Witness ==
    /\ Len(in_handle) = 3
    /\ in_handle[1] = Bad
    /\ handle_pos = Len(in_handle)
    /\ lines_returned = << << "a" >> >>
    /\ ~readline_raised

\* C25: nothing races on in_handle.  Every write to it is made while the
\* readline_and_queue thread has not been started, the thread is started only
\* after main and esp32_send_first are through, and once it is started only
\* its own calls of pwar_readline take lines from in_handle.
C25_NoRaceOnHandle ==
    /\ [][handle_written' # handle_written
            => /\ readline_thread = "not_started"
               /\ readline_thread' = "not_started"]_vars
    /\ [](readline_thread # "not_started"
            => pc \notin {"main", "esp32_send_first"})
    /\ [][transport_out' # transport_out
            => /\ readline_thread = "pwar_readline"
               /\ readline_thread' # "pwar_readline"
               /\ pc' = pc]_vars

\* esp32_send_first has made its three writes and the thread, started after
\* them, has read a line that watch_items has taken from the queue.
C25_Witness ==
    /\ handle_written = Written(3)
    /\ readline_thread = "pwar_readline"
    /\ pc = "while"
    /\ transport_out # << >>
    /\ log = transport_out

\* watch_items is in its while loop.
InLoop == pc \in {"while", "get"}

\* The read thread is inside a call of pwar_readline.
InRead == readline_thread = "pwar_readline"

\* C26: a call of pwar_readline that never returns does not keep watch_items
\* in its loop.  While the read thread stays in the call, watch_items leaves
\* the loop once the guard time is over (here: it ends within MaxTime), once
\* nothing has been dequeued for the inactivity time, or once the caller has
\* cancelled; read_queue.get(timeout=0.5) always gives the turn back.
C26_StalledReadCannotStopTimeouts ==
    (/\ InLoop
     /\ InRead
     /\ \/ /\ Truthy(guard_time_seconds)
           /\ start_time + Budget(guard_time_seconds) <= MaxTime
        \/ /\ Truthy(inactivity_time_seconds)
           /\ read_queue = << >>
           /\ last_activity_time + Budget(inactivity_time_seconds) <= MaxTime
        \/ ~keep_going_flag)
      ~> (pc = "join" \/ ~InRead)

\* The guard time ended the loop although the read thread was, and is, in a
\* call of pwar_readline that has returned nothing: watch_items waits in join.
C26_Witness ==
    /\ pc = "join"
    /\ exit_cause = "guard"
    /\ InRead
    /\ transport_out = << >>
    /\ keep_going_flag

\* C27: with a guard time that is not zero, every call of pwar_readline
\* returning in the end and every thread getting its turn, watch_items
\* returns.  Once "finished" is set the read thread finishes at most the call
\* it is in, which may queue one more line, and then ends.
C27_GuardedSessionReturns ==
    /\ (Truthy(guard_time_seconds) /\ pc \in {"watch_items", "while", "get", "join"})
         ~> (pc \in {"write_report", "done"})
    /\ [][(results.finished /\ readline_thread = "while")
            => readline_thread' \in {"while", "ended"}]_vars
    /\ [][(results.finished /\ transport_out' # transport_out)
            => (readline_thread = "pwar_readline" /\ readline_thread' = "while")]_vars

\* The guard time ended a session in which nothing else happened; the read
\* thread's last call returned a line that stays in the queue.
C27_Witness ==
    /\ pc = "done"
    /\ exit_cause = "guard"
    /\ return_value = -1
    /\ readline_thread = "ended"
    /\ log = << >>
    /\ Len(read_queue) = 1
    /\ keep_going_flag

\* C28: after a reboot line "finished" becomes true with no guard time, no
\* inactivity time, no cancellation and no further line (here: when the
\* first Timer is due within MaxTime), and the moment is that of the first
\* reboot line: as long as "finished" is not set, a later reboot line or any
\* other line leaves the first Timer as it is.
C28_RebootFinishesFromFirstReboot ==
    /\ (/\ finish_timers # << >>
        /\ finish_timers[1] <= MaxTime
        /\ ~Truthy(guard_time_seconds)
        /\ ~Truthy(inactivity_time_seconds))
         ~> results.finished
    /\ [][(finish_timers # << >> /\ ~results'.finished)
            => /\ finish_timers' # << >>
               /\ finish_timers'[1] = finish_timers[1]]_vars
    /\ [][Dequeues /\ CallsCallback(Dequeued, "reboot_callback")
            => finish_timers'[Len(finish_timers')] = now + Seconds(FinishDelay)]_vars

\* Two reboot lines, the second a second after the first: the Timer of the
\* first has set "finished" two seconds after the first line while the Timer
\* of the second is still pending.
C28_Witness ==
    /\ log = << 1, 1 >>
    /\ results.reboots = 2
    /\ results.finished
    /\ finish_timers = << 3 >>
    /\ now = 2
    /\ grace_lines # None
    /\ ~Truthy(guard_time_seconds)
    /\ ~Truthy(inactivity_time_seconds)
    /\ keep_going_flag

\* C29: once the while loop is left nothing is taken from read_queue, logged
\* or classified any more: from there to the end of main the counters and the
\* outcomes stay as they are, whatever waits in the queue or is still put
\* into it, and the value returned and the report are made from them.
C29_NothingClassifiedAfterLoop ==
    /\ [][(pc \in {"join", "write_report", "done"})
            => (/\ log' = log
                /\ Len(read_queue') >= Len(read_queue)
                /\ results'.reboots = results.reboots
                /\ results'.items_run = results.items_run
                /\ results'.items_failed = results.items_failed
                /\ results'.items_ignored = results.items_ignored
                /\ results'.outcomes = results.outcomes)
         ]_vars
    /\ [][(pc = "write_report" /\ pc' = "done" /\ report' # None)
            => (/\ Len(report'[1].testcases) = Len(results.outcomes)
                /\ \A i \in 1..Len(results.outcomes) :
                      report'[1].testcases[i] = Testcase(results.outcomes[i])
                /\ report'[1].failures = results.items_failed)
         ]_vars

\* main has returned the count of a session that a reboot line ended, the
\* report is written, and a failure line that came after it is still in the
\* queue, uncounted.
C29_Witness ==
    /\ pc = "done"
    /\ log = << 1 >>
    /\ read_queue = << 4 >>
    /\ results.items_failed = 0
    /\ results.outcomes = << >>
    /\ return_value = 1
    /\ report # None

\* C30: only a dequeued line counts as activity, and the bytes of a line
\* that has not ended yet are not one: readline_and_queue gets a line to
\* queue (which watch_items then takes, setting last_activity_time) only
\* from a call of pwar_readline that has read a terminator, so a device that
\* sends nothing but an unterminated line lets the inactivity time run out.
\* (Stated for streams in which every byte decodes.)
C30_UnterminatedBytesAreNoActivity ==
    [][(Clean(in_handle) /\ lines_returned' # lines_returned)
        => (handle_pos' > 0 /\ in_handle[handle_pos'] = Terminator)]_vars

\* How many run_callback calls the lines of ls have caused.
RECURSIVE RunsIn(_)
RunsIn(ls) ==
    IF ls = << >> THEN 0
    ELSE RunsIn(Tail(ls)) + CallCount(Head(ls), {"run_callback"})

\* The testcase entries of the report with status FAIL.
FailEntries ==
    {i \in 1..Len(report[1].testcases) : report[1].testcases[i].status = "FAIL"}

\* C31: in every report written the envelope agrees with its entries:
\* "failures" is the number of FAIL testcases and "tests" is at least the
\* number of testcases.
C31_EnvelopeAgreesWithEntries ==
    report # None
        => /\ report[1].failures = Cardinality(FailEntries)
           /\ report[1].tests >= Len(report[1].testcases)

\* C31 as the code has it: the envelope carries items_run and items_failed.
\* When a summary line "N Tests M Failures K Ignored" was classified they are
\* its N and M, whatever the entries are; otherwise "failures" is the number
\* of FAIL testcases and "tests" is the number of "Running ..." lines, which
\* may be fewer than the testcases.
C31_EnvelopeFromCountsOrSummary ==
    report # None
        => IF SummaryClassified
           THEN \E i \in 1..Len(log) :
                    /\ Matches[log[i]][8].matched
                    /\ report[1].tests = ToInt(Matches[log[i]][8].groups[1])
                    /\ report[1].failures = ToInt(Matches[log[i]][8].groups[2])
           ELSE /\ report[1].failures = Cardinality(FailEntries)
                /\ report[1].tests = RunsIn(log)

\* A report written after a failure line and the summary line
\* "1 Tests 2 Failures 0 Ignored": failures is 2, there is one FAIL testcase.
C31_Witness ==
    /\ report # None
    /\ log = << 4, 9 >>
    /\ report[1].failures = 2
    /\ report[1].tests = 1
    /\ Cardinality(FailEntries) = 1

\* ------------------------------------------------------- u_run_zephyr.run
\* The entries of JLINK_DEVICE, of which jlink_device(mcu) returns one or None.
JLINK_DEVICE == << "nRF52833_XXAA", "nRF52840_XXAA", "nRF5340_XXAA_APP" >>

\* "retries < 3" of run's download loop.
MaxRetries == 3

\* What u_monitor.main may return: -1 or a count of failures and reboots.
MonitorReturns == -1..2

\* What a step of run or of download_nrf53 leaves alone.
NotOfRun == << session_vars, reader_vars, handle_written >>

\* run is called: nothing built, locked or downloaded yet; no session runs.
ZephyrInit ==
    /\ run_pc = "check_installation"
    /\ build_dir = None
    /\ locked_connection = None
    /\ jlink_device_name \in {None} \cup {Some(JLINK_DEVICE[i]) : i \in 1..3}
    /\ retries = 0
    /\ downloaded = FALSE
    /\ run_return_value = -1
    /\ download_calls = 0
    /\ monitor_calls = 0
    /\ cpunet_hex_exists = FALSE
    /\ nrf_pc = "idle"
    /\ nrf_success = TRUE
    /\ exe_runs = << >>
    /\ connection_type = "SERIAL"
    /\ in_handle = << >>
    /\ handle_pos = 0
    /\ lines_returned = << >>
    /\ readline_raised = FALSE
    /\ handle_written = << >>
    /\ guard_time_seconds = None
    /\ inactivity_time_seconds = None
    /\ keep_going_flag = TRUE
    /\ now = 0
    /\ results = [finished |-> FALSE, reboots |-> 0, items_run |-> 0,
                  items_failed |-> 0, items_ignored |-> 0,
                  overall_start_time |-> 0, last_start_time |-> 0,
                  outcomes |-> << >>]
    /\ pc = "main"
    /\ return_value = -1
    /\ start_time = 0
    /\ last_activity_time = 0
    /\ exit_cause = "none"
    /\ timer_msg = "none"
    /\ readline_thread = "not_started"
    /\ read_queue = << >>
    /\ transport_out = << >>
    /\ log = << >>
    /\ finish_timers = << >>
    /\ send_first_failed = FALSE
    /\ report = None
    /\ grace_lines = None
    /\ item_start = [n \in ItemNames |-> None]
    /\ report_args = None

\* "if keep_going(...) and check_installation(...)": on to set_env, or out
\* with the -1 that return_value was given at the start.
RunCheckInstallation ==
    /\ run_pc = "check_installation"
    /\ \E installed \in BOOLEAN :
         run_pc' = IF keep_going(keep_going_flag) /\ installed
                   THEN "set_env" ELSE "returned"
    /\ UNCHANGED << build_dir, locked_connection, jlink_device_name, retries,
                    downloaded, run_return_value, download_calls,
                    monitor_calls, cpunet_hex_exists, nrf_pc, nrf_success,
                    exe_runs >>
    /\ UNCHANGED NotOfRun

\* set_env, "if keep_going(...) and returned_env", "if board": without a
\* board run returns 1.
RunSetEnv ==
    /\ run_pc = "set_env"
    /\ \E returned_env \in BOOLEAN, board \in BOOLEAN :
         IF keep_going(keep_going_flag) /\ returned_env
         THEN IF board
              THEN /\ run_pc' = "build"
                   /\ UNCHANGED run_return_value
              ELSE /\ run_pc' = "returned"
                   /\ run_return_value' = 1
         ELSE /\ run_pc' = "returned"
              /\ UNCHANGED run_return_value
    /\ UNCHANGED << build_dir, locked_connection, jlink_device_name, retries,
                    downloaded, download_calls, monitor_calls,
                    cpunet_hex_exists, nrf_pc, nrf_success, exe_runs >>
    /\ UNCHANGED NotOfRun

\* build(...): it returns the build directory or None; a build may or may
\* not leave a merged_CPUNET.hex in it.
RunBuild ==
    /\ run_pc = "build"
    /\ \E built \in BOOLEAN, hex \in BOOLEAN :
         /\ build_dir' = IF built THEN Some("build") ELSE None
         /\ cpunet_hex_exists' = (built /\ hex)
    /\ run_pc' = "if_build_dir"
    /\ UNCHANGED << locked_connection, jlink_device_name, retries,
                    downloaded, run_return_value, download_calls,
                    monitor_calls, nrf_pc, nrf_success, exe_runs >>
    /\ UNCHANGED NotOfRun

\* "if keep_going(...) and build_dir" and the "with u_connection.Lock(...)"
\* under it, which gives a connection or None; "retries = 0, downloaded =
\* False" when it gave one.  Otherwise run returns: 1 from the else of the
\* first if, -1 when no connection was locked.
RunLock ==
    /\ run_pc = "if_build_dir"
    /\ IF keep_going(keep_going_flag) /\ build_dir # None
       THEN \E locked \in BOOLEAN :
              /\ locked_connection' = Some(locked)
              /\ run_pc' = IF locked THEN "while" ELSE "returned"
              /\ UNCHANGED run_return_value
       ELSE /\ run_return_value' = 1
            /\ run_pc' = "returned"
            /\ UNCHANGED locked_connection
    /\ retries' = 0
    /\ downloaded' = FALSE
    /\ UNCHANGED << build_dir, jlink_device_name, download_calls,
                    monitor_calls, cpunet_hex_exists, nrf_pc, nrf_success,
                    exe_runs >>
    /\ UNCHANGED NotOfRun

\* DownloadWhile allowing a fourth attempt.
DownloadWhile_FourAttempts ==
    /\ run_pc = "while"
    /\ run_pc' = IF /\ keep_going(keep_going_flag)
                    /\ ~downloaded
                    /\ retries < MaxRetries + 1
                 THEN "download" ELSE "if_downloaded"
    /\ UNCHANGED << build_dir, locked_connection, jlink_device_name, retries,
                    downloaded, run_return_value, download_calls,
                    monitor_calls, cpunet_hex_exists, nrf_pc, nrf_success,
                    exe_runs >>
    /\ UNCHANGED NotOfRun

\* "while keep_going(...) and not downloaded and (retries < 3)".
DownloadWhile ==
    /\ run_pc = "while"
    /\ run_pc' = IF /\ keep_going(keep_going_flag)
                    /\ ~downloaded
                    /\ retries < MaxRetries
                 THEN "download" ELSE "if_downloaded"
    /\ UNCHANGED << build_dir, locked_connection, jlink_device_name, retries,
                    downloaded, run_return_value, download_calls,
                    monitor_calls, cpunet_hex_exists, nrf_pc, nrf_success,
                    exe_runs >>
    /\ UNCHANGED NotOfRun

\* download(...) for a device other than the nRF5340: download_single_cpu
\* is one call of exe_run.  The rest of the loop body follows: "retries += 1"
\* when it failed.
DownloadSingleCpu ==
    /\ run_pc = "download"
    /\ jlink_device_name # Some("nRF5340_XXAA_APP")
    /\ download_calls' = download_calls + 1
    /\ \E ok \in BOOLEAN :
         /\ downloaded' = ok
         /\ retries' = IF ok THEN retries ELSE retries + 1
    /\ run_pc' = "while"
    /\ UNCHANGED << build_dir, locked_connection, jlink_device_name,
                    run_return_value, monitor_calls, cpunet_hex_exists,
                    nrf_pc, nrf_success, exe_runs >>
    /\ UNCHANGED NotOfRun

\* download(...) for the nRF5340 calls download_nrf53: "success = True".
Nrf53Start ==
    /\ run_pc = "download"
    /\ jlink_device_name = Some("nRF5340_XXAA_APP")
    /\ nrf_pc = "idle"
    /\ download_calls' = download_calls + 1
    /\ nrf_success' = TRUE
    /\ exe_runs' = << >>
    /\ nrf_pc' = "recover_netcpu"
    /\ UNCHANGED << run_pc, build_dir, locked_connection, jlink_device_name,
                    retries, downloaded, run_return_value, monitor_calls,
                    cpunet_hex_exists >>
    /\ UNCHANGED NotOfRun

\* One of the four blocks of download_nrf53: when condition holds, nrfjprog
\* is run for step and success becomes what exe_run returned; then on to
\* the block after it.
Nrf53Block(at, condition, step, then) ==
    /\ nrf_pc = at
    /\ IF condition
       THEN \E ok \in BOOLEAN :
              /\ nrf_success' = ok
              /\ exe_runs' = Append(exe_runs, [step |-> step, ok |-> ok])
       ELSE UNCHANGED << nrf_success, exe_runs >>
    /\ nrf_pc' = then
    /\ UNCHANGED << run_pc, build_dir, locked_connection, jlink_device_name,
                    retries, downloaded, run_return_value, download_calls,
                    monitor_calls, cpunet_hex_exists >>
    /\ UNCHANGED NotOfRun

\* "if os.path.exists(cpunet_hex_path)": recover NETCPU.
Nrf53RecoverNetcpu ==
    Nrf53Block("recover_netcpu", cpunet_hex_exists, "recover NETCPU",
               "recover_app")

\* "if success": recover APP.
Nrf53RecoverApp ==
    Nrf53Block("recover_app", nrf_success, "recover APP", "download_netcpu")

\* "if success and os.path.exists(cpunet_hex_path)": download NETCPU.
Nrf53DownloadNetcpu ==
    Nrf53Block("download_netcpu", nrf_success /\ cpunet_hex_exists,
               "download NETCPU", "download_app")

\* Nrf53DownloadApp without its "if success".
Nrf53DownloadApp_Unconditional ==
    Nrf53Block("download_app", TRUE, "download APP", "return")

\* "if success": download APP.
Nrf53DownloadApp ==
    Nrf53Block("download_app", nrf_success, "download APP", "return")

\* "return success" of download_nrf53, back through download into the loop
\* of run: "downloaded = download(...)" and "retries += 1" when it failed.
Nrf53Return ==
    /\ nrf_pc = "return"
    /\ nrf_pc' = "idle"
    /\ downloaded' = nrf_success
    /\ retries' = IF nrf_success THEN retries ELSE retries + 1
    /\ run_pc' = "while"
    /\ UNCHANGED << build_dir, locked_connection, jlink_device_name,
                    run_return_value, download_calls, monitor_calls,
                    cpunet_hex_exists, nrf_success, exe_runs >>
    /\ UNCHANGED NotOfRun

\* "if downloaded": the target is reset and u_monitor.main is called, whose
\* return value is that of run; otherwise run returns what it has.
RunMonitor ==
    /\ run_pc = "if_downloaded"
    /\ IF downloaded
       THEN /\ monitor_calls' = monitor_calls + 1
            /\ \E r \in MonitorReturns : run_return_value' = r
       ELSE UNCHANGED << monitor_calls, run_return_value >>
    /\ run_pc' = "returned"
    /\ UNCHANGED << build_dir, locked_connection, jlink_device_name, retries,
                    downloaded, download_calls, cpunet_hex_exists, nrf_pc,
                    nrf_success, exe_runs >>
    /\ UNCHANGED NotOfRun

\* The owner of keep_going_flag asks run to stop.
RunCancel ==
    /\ run_pc # "returned"
    /\ keep_going_flag
    /\ keep_going_flag' = FALSE
    /\ UNCHANGED << guard_time_seconds, inactivity_time_seconds, now,
                    results, pc, return_value, start_time,
                    last_activity_time, exit_cause, timer_msg,
                    readline_thread, read_queue, transport_out, log,
                    finish_timers, send_first_failed, report, grace_lines,
                    item_start, report_args >>
    /\ UNCHANGED << reader_vars, handle_written, zephyr_vars >>

ZephyrNext ==
    \/ RunCheckInstallation
    \/ RunSetEnv
    \/ RunBuild
    \/ RunLock
    \/ DownloadWhile
    \/ DownloadSingleCpu
    \/ Nrf53Start
    \/ Nrf53RecoverNetcpu
    \/ Nrf53RecoverApp
    \/ Nrf53DownloadNetcpu
    \/ Nrf53DownloadApp
    \/ Nrf53Return
    \/ RunMonitor
    \/ RunCancel

ZephyrSpec == ZephyrInit /\ [][ZephyrNext]_vars

\* run has returned.
RunReturned == run_pc = "returned"

\* C32: run calls download at most 3 times; a further call is made only
\* while no call has succeeded and no cancellation has been seen; the
\* monitor is started only after a download that succeeded, which itself
\* follows a build that succeeded and a connection that was locked; and once
\* the connection was asked for, a run without a successful download (the
\* lock failed, every attempt failed or it was cancelled) returns -1 and has
\* never started the monitor.
C32_DownloadAttemptsAndMonitor ==
    /\ [](download_calls <= 3)
    /\ [][download_calls' # download_calls
            => (/\ download_calls' = download_calls + 1
                /\ ~downloaded
                /\ build_dir # None
                /\ locked_connection = << TRUE >>)
         ]_vars
    /\ [][(run_pc = "while" /\ run_pc' = "download") => keep_going_flag]_vars
    /\ [][monitor_calls' # monitor_calls
            => (/\ monitor_calls = 0
                /\ monitor_calls' = 1
                /\ downloaded
                /\ download_calls >= 1
                /\ build_dir # None
                /\ locked_connection = << TRUE >>)
         ]_vars
    /\ []((RunReturned /\ locked_connection # << >> /\ ~downloaded)
            => (run_return_value = -1 /\ monitor_calls = 0))

\* Three downloads have failed: run has returned -1 without a monitor.
C32_Witness ==
    /\ RunReturned
    /\ download_calls = 3
    /\ retries = 3
    /\ ~downloaded
    /\ keep_going_flag
    /\ run_return_value = -1
    /\ monitor_calls = 0

\* The nrfjprog calls of download_nrf53 in the order of its code, given
\* whether merged_CPUNET.hex exists.
Nrf53Plan ==
    IF cpunet_hex_exists
    THEN << "recover NETCPU", "recover APP", "download NETCPU", "download APP" >>
    ELSE << "recover APP", "download APP" >>

\* C33: download_nrf53 runs recover NETCPU, recover APP, download NETCPU and
\* download APP in that order, the two NETCPU steps only when the network
\* core's hex file exists; a step is run only if every step run before it
\* succeeded, no step is left out while all succeed, and the function returns
\* success only if download APP was run and succeeded.
C33_Nrf53StepsInOrder ==
    /\ [](/\ Len(exe_runs) <= Len(Nrf53Plan)
          /\ \A i \in 1..Len(exe_runs) :
               /\ exe_runs[i].step = Nrf53Plan[i]
               /\ i < Len(exe_runs) => exe_runs[i].ok)
    /\ []((nrf_pc = "return" /\ \A i \in 1..Len(exe_runs) : exe_runs[i].ok)
            => Len(exe_runs) = Len(Nrf53Plan))
    /\ [][(nrf_pc = "return" /\ nrf_pc' = "idle")
            => (downloaded' = (/\ exe_runs # << >>
                               /\ exe_runs[Len(exe_runs)].step = "download APP"
                               /\ exe_runs[Len(exe_runs)].ok))
         ]_vars

\* With a network core hex, the first three steps succeeded and download APP
\* failed: download_nrf53 is about to return failure after four steps.
C33_Witness ==
    /\ nrf_pc = "return"
    /\ cpunet_hex_exists
    /\ Len(exe_runs) = 4
    /\ exe_runs[3].ok
    /\ ~exe_runs[4].ok
    /\ ~nrf_success

====
